---- MODULE Spec2Model ----
(***************************************************************************)
(* A model of the generic CRUD gateway: the data-access adapter            *)
(* (src/server/db.py, class DB), the generic resource handlers             *)
(* (src/resources/ResourceBase.py), the resource factories                 *)
(* (src/server/resources/ResourceFactory.py) and the route registration    *)
(* (src/app.py).  Every HTTP handler is one atomic action; the document    *)
(* store is a function from collection names to sequences of documents in  *)
(* store order.  Python dicts are functions from keys to values, Python    *)
(* strings that carry ids are sequences of one-character strings.          *)
(***************************************************************************)
EXTENDS Integers, Sequences, FiniteSets, TLC

VARIABLES db, nextOid, req, resp

vars == <<db, nextOid, req, resp>>

----------------------------------------------------------------------------
(* Bounds *)

\* Number of ObjectIds the driver may hand out in one run.
MaxOid == 2

\* The first ObjectId the driver hands out (ids are opaque; 10 is "0a").
FirstOid == 10

\* Number of hex digits of an id string (24 in bson, scaled down).
OidHexLen == 2

\* Largest number of documents a collection holds when it is read page by
\* page: more than two pages of ITEMS_PER_PAGE.
MaxDocs == 23

\* Largest page number a list request carries.
MaxPageNumber == 3

----------------------------------------------------------------------------
(* Values *)

ITEMS_PER_PAGE == 10

\* Typed Python values that can stand where an id is expected.
OidVal(n) == [t |-> "ObjectId", n |-> n]
StrVal(s) == [t |-> "str", s |-> s]
DictVal(d) == [t |-> "dict", d |-> d]
NoneVal == [t |-> "NoneType"]

HexChars == <<"0", "1", "2", "3", "4", "5", "6", "7", "8", "9", "a", "b", "c", "d", "e", "f">>

\* binascii.hexlify of the id's bytes: fixed width, lowercase, zero padded.
RECURSIVE ToHex(_, _)
ToHex(n, len) ==
    IF len = 0 THEN <<>>
    ELSE Append(ToHex(n \div 16, len - 1), HexChars[(n % 16) + 1])

\* Mutant of ObjectIdStr: the hex digits without the leading zeros.
RECURSIVE ToHexUnpadded(_)
ToHexUnpadded(n) ==
    IF n < 16 THEN <<HexChars[n + 1]>>
    ELSE Append(ToHexUnpadded(n \div 16), HexChars[(n % 16) + 1])

ObjectIdStr_unpadded(n) == ToHexUnpadded(n)

\* str(ObjectId): the hex string of the id.
ObjectIdStr(n) == ToHex(n, OidHexLen)

\* Value of one hex digit as bytes.fromhex reads it (either case), -1 otherwise.
HexDigit(c) ==
    CASE c \in {"0", "1", "2", "3", "4", "5", "6", "7", "8", "9"} ->
             CHOOSE i \in 0..9 : HexChars[i + 1] = c
      [] c \in {"a", "b", "c", "d", "e", "f"} ->
             CHOOSE i \in 10..15 : HexChars[i + 1] = c
      [] c = "A" -> 10
      [] c = "B" -> 11
      [] c = "C" -> 12
      [] c = "D" -> 13
      [] c = "E" -> 14
      [] c = "F" -> 15
      [] OTHER -> -1

RECURSIVE FromHex(_)
FromHex(s) ==
    IF s = <<>> THEN 0
    ELSE FromHex(SubSeq(s, 1, Len(s) - 1)) * 16 + HexDigit(s[Len(s)])

\* ObjectId.is_valid for a str: the right length and only hex digits.
ValidHex(s) == Len(s) = OidHexLen /\ \A i \in 1..Len(s) : HexDigit(s[i]) >= 0

\* bson ObjectId(x): None generates a new id, an ObjectId is copied, a str is
\* parsed, anything else raises.  fresh is the id a generation would yield.
ObjectId(x, fresh) ==
    CASE x.t = "NoneType" -> [ok |-> TRUE, n |-> fresh]
      [] x.t = "ObjectId" -> [ok |-> TRUE, n |-> x.n]
      [] x.t = "str" -> IF ValidHex(x.s) THEN [ok |-> TRUE, n |-> FromHex(x.s)]
                        ELSE [ok |-> FALSE, n |-> 0]
      [] OTHER -> [ok |-> FALSE, n |-> 0]

\* DB.__convert_to_oid: a dict is read through its "$oid" key (KeyError when
\* absent), everything else goes to ObjectId as it is.
convert_to_oid(id, fresh) ==
    IF id.t = "dict"
    THEN IF "$oid" \in DOMAIN id.d THEN ObjectId(id.d["$oid"], fresh)
         ELSE [ok |-> FALSE, n |-> 0]
    ELSE ObjectId(id, fresh)

\* repr of a Python value inside a dict's repr.
PyRepr(x) ==
    CASE x.t = "str" -> <<"'">> \o x.s \o <<"'">>
      [] x.t = "NoneType" -> <<"N", "o", "n", "e">>

\* Python str(x) of a value standing for an id.
PyStr(x) ==
    CASE x.t = "ObjectId" -> ObjectIdStr(x.n)
      [] x.t = "str" -> x.s
      [] x.t = "NoneType" -> <<"N", "o", "n", "e">>
      [] x.t = "dict" ->
             IF "$oid" \in DOMAIN x.d
             THEN <<"{", "'", "$", "o", "i", "d", "'", ":", " ">>
                      \o PyRepr(x.d["$oid"]) \o <<"}">>
             ELSE <<"{", "}">>

\* json.loads(json_util.dumps(doc)): the ObjectId becomes {"$oid": "<hex>"}.
json_dumps(doc) ==
    [k \in DOMAIN doc |->
        IF k = "_id" THEN DictVal("$oid" :> StrVal(ObjectIdStr(doc[k].n)))
        ELSE doc[k]]

\* flask make_response(body, status).
make_response(body, status_code) == [status_code |-> status_code, data |-> body]

----------------------------------------------------------------------------
(* The document store as the driver presents it.  A store state st is      *)
(* [db |-> collections, next |-> the id the next insert will be given].    *)

\* Positions of the documents of a collection whose _id is the ObjectId n.
Matching(coll, n) == {i \in 1..Len(coll) : coll[i]["_id"] = OidVal(n)}

\* Collection.find_one({"_id": n}): the position of the first match, 0 for None.
find_one(coll, n) ==
    IF Matching(coll, n) = {} THEN 0
    ELSE CHOOSE i \in Matching(coll, n) : \A j \in Matching(coll, n) : i <= j

\* A filter document matches when each of its keys is present with that value.
Matches(doc, query) ==
    \A k \in DOMAIN query : k \in DOMAIN doc /\ doc[k] = query[k]

RECURSIVE Select(_, _)
Select(coll, query) ==
    IF coll = <<>> THEN <<>>
    ELSE IF Matches(Head(coll), query)
         THEN <<Head(coll)>> \o Select(Tail(coll), query)
         ELSE Select(Tail(coll), query)

\* Collection.find(limit, skip, filter): the matching documents in store
\* order, skip of them dropped, at most limit of them kept.
find(coll, limit, skip, query) ==
    LET hits == Select(coll, query)
        last == IF skip + limit < Len(hits) THEN skip + limit ELSE Len(hits)
    IN  SubSeq(hits, skip + 1, last)

\* dict.pop("_id", None): the dict without the key.
Pop(data) == [k \in DOMAIN data \ {"_id"} |-> data[k]]

\* Mutant of insert_one: the generator is stuck, every document gets the
\* first id.
insert_one_stuck_id(st, collection, data) ==
    LET doc == ("_id" :> OidVal(FirstOid)) @@ data
    IN  [st |-> [db |-> [st.db EXCEPT ![collection] = Append(@, doc)],
                 next |-> st.next + 1],
         inserted_id |-> OidVal(FirstOid),
         data |-> doc]

\* Collection.insert_one(data) for a dict without _id: the driver gives it a
\* new ObjectId, writes it into the caller's dict, and stores the document.
insert_one(st, collection, data) ==
    LET doc == ("_id" :> OidVal(st.next)) @@ data
    IN  [st |-> [db |-> [st.db EXCEPT ![collection] = Append(@, doc)],
                 next |-> st.next + 1],
         inserted_id |-> OidVal(st.next),
         data |-> doc]

\* Mutant of replace_one: a $set-like update that keeps the old fields that
\* data does not have.
replace_one_merge(st, collection, n, data) ==
    LET i == find_one(st.db[collection], n)
    IN  IF i = 0 THEN [st |-> st, matched_count |-> 0, modified_count |-> 0]
        ELSE [st |-> [st EXCEPT !.db[collection][i] =
                                    (("_id" :> OidVal(n)) @@ data) @@ @],
              matched_count |-> 1,
              modified_count |-> 1]

\* Mutant of replace_one: the old document is removed and data is stored as
\* a new document under a new id.
replace_one_reinsert(st, collection, n, data) ==
    LET i == find_one(st.db[collection], n)
    IN  IF i = 0 THEN [st |-> st, matched_count |-> 0, modified_count |-> 0]
        ELSE [st |-> [db |-> [st.db EXCEPT ![collection] =
                                  Append(SubSeq(@, 1, i - 1) \o SubSeq(@, i + 1, Len(@)),
                                         ("_id" :> OidVal(st.next)) @@ data)],
                      next |-> st.next + 1],
              matched_count |-> 1,
              modified_count |-> 1]

\* Collection.replace_one({"_id": n}, data): the first match keeps its _id and
\* its place and takes the fields of data.
replace_one(st, collection, n, data) ==
    LET i == find_one(st.db[collection], n)
    IN  IF i = 0 THEN [st |-> st, matched_count |-> 0, modified_count |-> 0]
        ELSE [st |-> [st EXCEPT !.db[collection][i] =
                                    ("_id" :> OidVal(n)) @@ data],
              matched_count |-> 1,
              modified_count |-> 1]

\* The sequence s without its i-th element.
RemoveAt(s, i) == SubSeq(s, 1, i - 1) \o SubSeq(s, i + 1, Len(s))

\* Mutant of delete_one: the document is only marked, not removed.
delete_one_soft(st, collection, n) ==
    LET i == find_one(st.db[collection], n)
    IN  IF i = 0 THEN [st |-> st, deleted_count |-> 0]
        ELSE [st |-> [st EXCEPT !.db[collection][i] =
                                    ("_id" :> OidVal(n)) @@ [deleted |-> TRUE]],
              deleted_count |-> 1]

\* Collection.delete_one({"_id": n}): removes the first match.
delete_one(st, collection, n) ==
    LET i == find_one(st.db[collection], n)
    IN  IF i = 0 THEN [st |-> st, deleted_count |-> 0]
        ELSE [st |-> [st EXCEPT !.db[collection] = RemoveAt(@, i)],
              deleted_count |-> 1]

----------------------------------------------------------------------------
(* The data-access adapter, class DB.  Each operator returns the store     *)
(* state after the call, the Response, and the caller's dict as the call   *)
(* leaves it.                                                              *)

\* A read that skips page_number documents instead of page_number pages.
query_collection_skip_documents(st, collection, page_number, query) ==
    LET offset == page_number
        results == find(st.db[collection], ITEMS_PER_PAGE, offset, query)
        result_array == [i \in 1..Len(results) |-> json_dumps(results[i])]
    IN  make_response(result_array, 200)

\* DB.query_collection
query_collection(st, collection, page_number, query) ==
    LET offset == page_number * ITEMS_PER_PAGE
        results == find(st.db[collection], ITEMS_PER_PAGE, offset, query)
        result_array == [i \in 1..Len(results) |-> json_dumps(results[i])]
    IN  make_response(result_array, 200)

\* DB.query_document_by_id
query_document_by_id(st, collection, id) ==
    LET object_id == convert_to_oid(id, st.next)
        i == find_one(st.db[collection], object_id.n)
    IN  IF ~object_id.ok
        THEN make_response([text |-> "Could not convert to ObjectId"], 422)
        ELSE IF i # 0
             THEN make_response(json_dumps(st.db[collection][i]), 200)
             ELSE make_response([text |-> "id not found"], 404)

\* DB.__update_document
update_document(st, collection, data) ==
    LET id == data["_id"]
        popped == Pop(data)
        object_id == convert_to_oid(id, st.next)
        result == replace_one(st, collection, object_id.n, popped)
    IN  IF ~object_id.ok
        THEN [st |-> st, data |-> popped,
              resp |-> make_response([success |-> FALSE,
                                      message |-> "Could not convert to ObjectId"], 422)]
        ELSE [st |-> result.st, data |-> popped,
              resp |->
                CASE result.matched_count = 1 ->
                         make_response([success |-> TRUE,
                                        message |-> "updated document",
                                        id |-> PyStr(id),
                                        updatedExisting |-> TRUE], 200)
                  [] result.matched_count = 0 ->
                         make_response([success |-> FALSE,
                                        message |-> "document not found"], 404)
                  [] result.matched_count > 1 ->
                         make_response([success |-> FALSE,
                                        message |-> "too many documents matched"], 400)]

\* DB.__insert_document
insert_document(st, collection, data) ==
    LET result == insert_one(st, collection, data)
    IN  [st |-> result.st, data |-> result.data,
         resp |-> make_response([success |-> TRUE,
                                 message |-> "inserted document",
                                 id |-> PyStr(result.inserted_id),
                                 updatedExisting |-> FALSE], 200)]

\* Mutant of upsert_document: an _id that names no document of the collection
\* makes the call insert data under that id.
upsert_document_insert_if_absent(st, collection, data) ==
    IF "_id" \in DOMAIN data
    THEN IF query_document_by_id(st, collection, data["_id"]).status_code = 200
         THEN update_document(st, collection, data)
         ELSE LET oid == convert_to_oid(data["_id"], st.next)
                  doc == ("_id" :> OidVal(oid.n)) @@ Pop(data)
              IN  [st |-> [st EXCEPT !.db[collection] = Append(@, doc)],
                   data |-> data,
                   resp |-> make_response([success |-> TRUE,
                                           message |-> "inserted document",
                                           id |-> PyStr(data["_id"]),
                                           updatedExisting |-> FALSE], 200)]
    ELSE insert_document(st, collection, data)

\* DB.upsert_document
upsert_document(st, collection, data) ==
    IF "_id" \in DOMAIN data
    THEN IF query_document_by_id(st, collection, data["_id"]).status_code = 200
         THEN update_document(st, collection, data)
         ELSE [st |-> st, data |-> data,
               resp |-> make_response(
                   [text |-> "data had _id but wasn't found in database"], 400)]
    ELSE insert_document(st, collection, data)

\* A delete that reports an id it could not convert as a missing document.
delete_document_by_id_unconverted_missing(st, collection, id) ==
    LET object_id == convert_to_oid(id, st.next)
        result == delete_one(st, collection, object_id.n)
    IN  IF object_id.ok /\ result.deleted_count > 0
        THEN [st |-> result.st,
              resp |-> make_response([success |-> TRUE,
                                      message |-> "deleted document",
                                      id |-> PyStr(id)], 200)]
        ELSE [st |-> st,
              resp |-> make_response([success |-> FALSE,
                                      message |-> "document not found"], 404)]

\* DB.delete_document_by_id
delete_document_by_id(st, collection, id) ==
    LET object_id == convert_to_oid(id, st.next)
        result == delete_one(st, collection, object_id.n)
    IN  IF ~object_id.ok
        THEN [st |-> st,
              resp |-> make_response([success |-> FALSE,
                                      message |-> "Could not convert to ObjectId"], 422)]
        ELSE IF result.deleted_count > 0
             THEN [st |-> result.st,
                   resp |-> make_response([success |-> TRUE,
                                           message |-> "deleted document",
                                           id |-> PyStr(id)], 200)]
             ELSE [st |-> result.st,
                   resp |-> make_response([success |-> FALSE,
                                           message |-> "document not found"], 404)]

\* The configuration file /config/resources.json: resource name -> fixture
\* documents.  app.py reads its keys, DB.reset its values.
sample_data ==
    [entities |-> <<[name |-> "test", value |-> 42]>>,
     widgets |-> <<[value |-> 7]>>]

\* The keys of the configuration in file order (Python dicts keep it).
resource_order == <<"entities", "widgets">>

resources == DOMAIN sample_data

\* The collection DB.test_db works in.
test_collection == "test_collection"

Collections == resources \cup {test_collection}

\* Mutant of drop_database: only the collections of the configuration are
\* dropped.
drop_database_configured_only(st) ==
    [st EXCEPT !.db = [c \in Collections |-> IF c \in resources THEN <<>> ELSE @[c]]]

\* client.drop_database(DATABASE): every collection is gone.
drop_database(st) == [st EXCEPT !.db = [c \in Collections |-> <<>>]]

\* drop_collection(collection)
drop_collection(st, collection) == [st EXCEPT !.db[collection] = <<>>]

\* The two loops of DB.reset: the first k fixture documents of resource
\* number r, after all those of the resources before it.
RECURSIVE reset_insert(_, _, _)
reset_insert(st, r, k) ==
    IF r = 0 THEN [st |-> st, inserted_id |-> NoneVal]
    ELSE IF k = 0
         THEN IF r = 1 THEN [st |-> st, inserted_id |-> NoneVal]
              ELSE reset_insert(st, r - 1, Len(sample_data[resource_order[r - 1]]))
         ELSE LET before == reset_insert(st, r, k - 1)
                  result == insert_one(before.st, resource_order[r],
                                       sample_data[resource_order[r]][k])
              IN  [st |-> result.st, inserted_id |-> result.inserted_id]

\* DB.reset
reset(st) ==
    LET last == Len(resource_order)
        result == reset_insert(drop_database(st), last,
                               Len(sample_data[resource_order[last]]))
    IN  [st |-> result.st,
         resp |-> make_response([success |-> TRUE,
                                 message |-> PyStr(result.inserted_id)], 200)]

\* DB.test_db: insert, query the collection, query the document, upsert the
\* same dict again, update, delete, clean up; every early return as written.
test_db(st) ==
    LET collection == test_collection
        test_data == [name |-> "test", value |-> 42]
        ins == upsert_document(st, collection, test_data)
        id == StrVal(ins.resp.data.id)
        page == query_collection(ins.st, collection, 0, <<>>)
        one == query_document_by_id(ins.st, collection, id)
        again == upsert_document(ins.st, collection, ins.data)
        new_test_data == [name |-> "test", value |-> 43,
                          _id |-> OidVal(convert_to_oid(id, again.st.next).n)]
        upd == upsert_document(again.st, collection, new_test_data)
        after_upd == query_document_by_id(upd.st, collection, id)
        del == delete_document_by_id(upd.st, collection, id)
        after_del == query_document_by_id(del.st, collection, id)
        failed(at) == [st |-> drop_collection(at, collection),
                       resp |-> make_response([text |-> "DB test failed"], 200)]
        returns(at, text) == [st |-> at, resp |-> make_response([text |-> text], 200)]
    IN  CASE ins.resp.status_code # 200 -> returns(ins.st, "upsert failed")
          [] ins.resp.data.success # TRUE -> returns(ins.st, "upsert failed")
          [] page.status_code # 200 -> returns(ins.st, "query collection failed")
          [] Len(page.data) = 0 -> returns(ins.st, "query collection failed: no results")
          [] "value" \notin DOMAIN page.data[1] -> failed(ins.st)
          [] page.data[1]["value"] # 42 ->
                 returns(ins.st, "query collection failed: wrong data")
          [] one.status_code # 200 -> returns(ins.st, "query document failed")
          [] one.data["value"] # 42 -> returns(ins.st, "query document failed: wrong data")
          [] again.resp.status_code # 200 -> returns(again.st, "upsert failed")
          [] again.resp.data.success # TRUE -> returns(again.st, "upsert failed")
          [] again.resp.data.id # id.s -> returns(again.st, "upsert failed: wrong id")
          [] upd.resp.status_code # 200 -> returns(upd.st, "update failed")
          [] upd.resp.data.success # TRUE -> returns(upd.st, "upsert failed")
          [] after_upd.status_code # 200 ->
                 returns(upd.st, "query document after update failed")
          [] after_upd.data["value"] # 43 ->
                 returns(upd.st, "query document after update failed: wrong data")
          [] del.resp.status_code # 200 -> returns(del.st, "delete failed")
          [] del.resp.data.id # id.s -> returns(del.st, "delete failed: wrong id")
          [] after_del.status_code # 404 ->
                 returns(del.st, "query document after delete failed (succeeded)")
          [] OTHER -> returns(drop_collection(del.st, collection), "DB test passed")

----------------------------------------------------------------------------
(* The resource registry and the generic handlers.                         *)

\* Mutant of ResourceFactory: the class reads the loop variable of the
\* registration when it is instantiated, which then holds the last name.
ResourceFactory_late_binding(resource_name) ==
    [resource_name |-> resource_order[Len(resource_order)]]

\* ResourceFactory(resource_name): a class whose instances are ResourceBase
\* objects constructed with the resource_name of this call.
ResourceFactory(resource_name) == [resource_name |-> resource_name]

\* ResourceListFactory(resource_name)
ResourceListFactory(resource_name) == [resource_name |-> resource_name]

\* The routes app.py registers: /<resource_name> and
\* /<resource_name>/<resource_id> for every key of the configuration.
routes ==
    [resource_name \in resources |->
        [list |-> ResourceListFactory(resource_name),
         item |-> ResourceFactory(resource_name)]]

\* ResourceBase.get
ResourceBase_get(self, st, resource_id) ==
    [st |-> st, resp |-> query_document_by_id(st, self.resource_name, resource_id)]

\* ResourceBase.delete
ResourceBase_delete(self, st, resource_id) ==
    delete_document_by_id(st, self.resource_name, resource_id)

\* Mutant of ResourceBase.put: the URL's resource_id is written into the
\* body as its _id.
ResourceBase_put_by_url(self, st, resource_id, data) ==
    upsert_document(st, self.resource_name, ("_id" :> resource_id) @@ Pop(data))

\* ResourceBase.put: resource_id is not used, the body's _id is.
ResourceBase_put(self, st, resource_id, data) ==
    upsert_document(st, self.resource_name, data)

\* ResourceListBase.get
ResourceListBase_get(self, st, page_number, parsed_query) ==
    [st |-> st,
     resp |-> query_collection(st, self.resource_name, page_number, parsed_query)]

\* ResourceListBase.put
ResourceListBase_put(self, st, data) ==
    upsert_document(st, self.resource_name, data)

----------------------------------------------------------------------------
(* Inputs *)

\* Ids a request may name: the id of the document an earlier run left behind
\* and every id handed out so far.
KnownOids == (FirstOid - 1)..(nextOid - 1)

\* Id strings a URL may carry: the known ids and a string that is no id.
UrlIds == {ObjectIdStr(n) : n \in KnownOids} \cup {<<"z">>}

\* Values a request body may carry under "_id" that convert to an ObjectId:
\* the id string, and the {"$oid": ...} object a GET returns.
GoodBodyIds ==
    {StrVal(ObjectIdStr(n)) : n \in KnownOids}
        \cup {DictVal("$oid" :> StrVal(ObjectIdStr(n))) : n \in KnownOids}

\* Values under "_id" that do not name a document: no hex string, a dict
\* without "$oid", JSON null.
BadBodyIds ==
    {StrVal(<<"z">>), DictVal("oid" :> StrVal(ObjectIdStr(FirstOid))), NoneVal}

\* Fields a request body may carry beside "_id".
Bodies == {[name |-> "test", value |-> 42], [value |-> 7]}

\* Request bodies: with and without "_id".
Datas ==
    Bodies
        \cup {("_id" :> id) @@ b : id \in GoodBodyIds, b \in Bodies}
        \cup {("_id" :> id) @@ [value |-> 7] : id \in BadBodyIds}

\* Page numbers a list request may carry.
Pages == {0, 1}

\* Filters a list request may carry.
Queries == {<<>>, [value |-> 7]}

\* What the database may hold when the server starts: nothing, or a document
\* an earlier run left in the test collection.
InitialStores ==
    {[c \in Collections |-> <<>>],
     [c \in Collections |->
         IF c = test_collection THEN <<[_id |-> OidVal(FirstOid - 1), value |-> 7]>>
         ELSE <<>>]}

----------------------------------------------------------------------------
(* The state machine *)

St == [db |-> db, next |-> nextOid]

\* No request is being served.
NoRequest == [method |-> "NONE", route |-> "none"]

NoResponse == [status_code |-> 0]

Init ==
    /\ db \in InitialStores
    /\ nextOid = FirstOid
    /\ req = NoRequest
    /\ resp = NoResponse

\* The server takes a request when none is being served, runs the handler to
\* its end, and the handler's result becomes the new state and the response.
\* The driver has ids left for what the handler inserts.
Handle(request, result) ==
    /\ req = NoRequest
    /\ result.st.next = nextOid \/ result.st.next <= FirstOid + MaxOid
    /\ req' = request
    /\ db' = result.st.db
    /\ nextOid' = result.st.next
    /\ resp' = result.resp

\* The response goes back to the client; the server is ready for the next
\* request.
Respond ==
    /\ req # NoRequest
    /\ req' = NoRequest
    /\ resp' = NoResponse
    /\ UNCHANGED <<db, nextOid>>

\* GET /<resource>/<resource_id>
Get(r, resource_id) ==
    LET result == ResourceBase_get(routes[r].item, St, StrVal(resource_id))
    IN  Handle([method |-> "GET", route |-> "item", resource |-> r,
                resource_id |-> resource_id], result)

\* DELETE /<resource>/<resource_id>
Delete(r, resource_id) ==
    LET result == ResourceBase_delete(routes[r].item, St, StrVal(resource_id))
    IN  Handle([method |-> "DELETE", route |-> "item", resource |-> r,
                resource_id |-> resource_id], result)

\* PUT /<resource>/<resource_id>
Put(r, resource_id, data) ==
    LET result == ResourceBase_put(routes[r].item, St, StrVal(resource_id), data)
    IN  Handle([method |-> "PUT", route |-> "item", resource |-> r,
                resource_id |-> resource_id, data |-> data], result)

\* GET /<resource>?page=..&query=..
ListGet(r, page_number, query) ==
    LET result == ResourceListBase_get(routes[r].list, St, page_number, query)
    IN  Handle([method |-> "GET", route |-> "list", resource |-> r,
                page |-> page_number, query |-> query], result)

\* PUT /<resource>
ListPut(r, data) ==
    LET result == ResourceListBase_put(routes[r].list, St, data)
    IN  Handle([method |-> "PUT", route |-> "list", resource |-> r,
                data |-> data], result)

\* GET /resetDB
ResetDb ==
    LET result == reset(St)
    IN  Handle([method |-> "GET", route |-> "resetDB"], result)

\* GET /testDB
TestDb ==
    LET result == test_db(St)
    IN  Handle([method |-> "GET", route |-> "testDB"], result)

Next ==
    \/ \E r \in resources, resource_id \in UrlIds : Get(r, resource_id)
    \/ \E r \in resources, resource_id \in UrlIds : Delete(r, resource_id)
    \/ \E r \in resources, resource_id \in UrlIds, data \in Datas :
           Put(r, resource_id, data)
    \/ \E r \in resources, page_number \in Pages, query \in Queries :
           ListGet(r, page_number, query)
    \/ \E r \in resources, data \in Datas : ListPut(r, data)
    \/ ResetDb
    \/ TestDb
    \/ Respond

Spec == Init /\ [][Next]_vars

----------------------------------------------------------------------------
(* Paged reads of a collection that holds several pages of documents *)

\* The fields of the i-th document of a stored collection laid out by
\* pattern: every document carries value 7, every second one does, or every
\* third one does; the others are the named sample document.
PagedBody(i, pattern) ==
    IF i % pattern = 0 THEN [value |-> 7] ELSE [name |-> "test", value |-> 42]

\* A collection of k documents inserted one after the other.
PagedCollection(k, pattern) ==
    [i \in 1..k |-> ("_id" :> OidVal(FirstOid + i - 1)) @@ PagedBody(i, pattern)]

\* Stores whose first resource collection holds up to MaxDocs documents,
\* the other collections none.
PagedStores ==
    {[c \in Collections |->
         IF c = resource_order[1] THEN PagedCollection(k, pattern) ELSE <<>>] :
        k \in 0..MaxDocs, pattern \in 1..3}

\* Page numbers of a list request, up to pages past the end of the data.
PageNumbers == 0..MaxPageNumber

\* The server is up with the documents earlier requests inserted.
InitPaged ==
    /\ db \in PagedStores
    /\ nextOid = FirstOid + Len(db[resource_order[1]])
    /\ req = NoRequest
    /\ resp = NoResponse

\* Clients read the collections page by page.
NextPaged ==
    \/ \E r \in resources, page_number \in PageNumbers, query \in Queries :
           ListGet(r, page_number, query)
    \/ Respond

SpecPaged == InitPaged /\ [][NextPaged]_vars

----------------------------------------------------------------------------
(* Vocabulary of the properties *)

\* The ObjectIds of the documents of a collection.
Ids(coll) == {coll[i]["_id"].n : i \in 1..Len(coll)}

\* The store after the step.
StNext == [db |-> db', next |-> nextOid']

\* The request of the state is a PUT, to either endpoint of a resource.
IsPut == req.method = "PUT"

\* The request of the state is a PUT whose body carries "_id".
IsPutWithId == IsPut /\ "_id" \in DOMAIN req.data

\* The request of the state is a PUT whose body carries no "_id".
IsPutWithoutId == IsPut /\ "_id" \notin DOMAIN req.data

\* coll with the fields of its document n replaced by those of data, every
\* other document and the order kept.
Replaced(coll, n, data) ==
    [i \in 1..Len(coll) |->
        IF coll[i]["_id"] = OidVal(n)
        THEN [k \in (DOMAIN data \cup {"_id"}) |->
                 IF k = "_id" THEN OidVal(n) ELSE data[k]]
        ELSE coll[i]]

----------------------------------------------------------------------------
(* C1 *)

\* C1 as stated: upsert_document is insert-or-replace keyed by id: for data
\* carrying an id, the call succeeds and afterwards the collection holds the
\* document data under that id, whether or not a document with that id
\* existed before.
C1_InsertOrReplace ==
    (IsPutWithId /\ req.data["_id"].t \in {"str", "dict"}
        /\ convert_to_oid(req.data["_id"], nextOid).ok)
    => LET n == convert_to_oid(req.data["_id"], nextOid).n
       IN  /\ resp.status_code = 200
           /\ \E i \in 1..Len(db[req.resource]) :
                  /\ db[req.resource][i]["_id"] = OidVal(n)
                  /\ Pop(db[req.resource][i]) = Pop(req.data)

\* C1 amended: for data carrying _id, upsert_document replaces the document
\* of the collection that has that id and answers 200; when the _id names no
\* document of the collection (or converts to no id) it inserts nothing,
\* answers 400 and leaves the store unchanged.  A document is inserted only
\* when data carries no _id.
C1_ReplaceOrReject ==
    [][IsPut' =>
          LET c == req'.resource
              data == req'.data
          IN  IF "_id" \in DOMAIN data
              THEN LET oid == convert_to_oid(data["_id"], nextOid)
                   IN  IF oid.ok /\ oid.n \in Ids(db[c])
                       THEN /\ resp'.status_code = 200
                            /\ db' = [db EXCEPT ![c] = Replaced(@, oid.n, Pop(data))]
                       ELSE /\ resp'.status_code = 400
                            /\ db' = db
              ELSE /\ resp'.status_code = 200
                   /\ Len(db'[c]) = Len(db[c]) + 1]_vars

\* C1 witness: an upsert by id has replaced a stored document.
C1_Witness ==
    /\ IsPutWithId
    /\ resp.status_code = 200
    /\ \E i \in 1..Len(db[req.resource]) :
           Pop(db[req.resource][i]) = Pop(req.data)

----------------------------------------------------------------------------
(* C2 *)

\* The request of the state is a PUT on the item endpoint.
IsItemPut == req.method = "PUT" /\ req.route = "item"

\* C2 as stated: after a PUT on /<resource>/<resource_id> the only document
\* that can differ is the one whose id is resource_id, and no document is
\* created.
C2_PutUpdatesUrlId ==
    [][IsItemPut' =>
          \A c \in Collections :
              /\ Len(db'[c]) = Len(db[c])
              /\ \A i \in 1..Len(db[c]) :
                     db'[c][i] # db[c][i] =>
                         /\ c = req'.resource
                         /\ StrVal(ObjectIdStr(db[c][i]["_id"].n))
                                = StrVal(req'.resource_id)]_vars

\* C2 amended: a PUT on /<resource>/<resource_id> does not use resource_id;
\* it upserts by the _id of the body.  With an _id in the body the only
\* document that can differ afterwards is the document of the resource's
\* collection that has the body's _id, and no document is created; without
\* an _id in the body a new document is appended to the resource's
\* collection and no existing document differs.
C2_PutUpdatesBodyId ==
    [][IsItemPut' =>
          \A c \in Collections :
              /\ IF c = req'.resource /\ "_id" \notin DOMAIN req'.data
                 THEN Len(db'[c]) = Len(db[c]) + 1
                 ELSE Len(db'[c]) = Len(db[c])
              /\ \A i \in 1..Len(db[c]) :
                     db'[c][i] # db[c][i] =>
                         /\ c = req'.resource
                         /\ "_id" \in DOMAIN req'.data
                         /\ convert_to_oid(req'.data["_id"], nextOid).ok
                         /\ db[c][i]["_id"]
                                = OidVal(convert_to_oid(req'.data["_id"], nextOid).n)]_vars

\* C2 witness: a PUT on the item endpoint of one document's id has answered
\* 200 for a body that names another document.
C2_Witness ==
    /\ IsItemPut
    /\ "_id" \in DOMAIN req.data
    /\ resp.status_code = 200
    /\ ValidHex(req.resource_id)
    /\ FromHex(req.resource_id) \in Ids(db[req.resource])
    /\ convert_to_oid(req.data["_id"], nextOid).n # FromHex(req.resource_id)

----------------------------------------------------------------------------
(* C3 *)

\* The request of the next state is an item PUT whose URL names a document
\* of the resource's collection while its body carries another _id: an
\* update that, applied to the URL's document, would change its id.
WouldChangeId ==
    /\ IsItemPut'
    /\ "_id" \in DOMAIN req'.data
    /\ ValidHex(req'.resource_id)
    /\ FromHex(req'.resource_id) \in Ids(db[req'.resource])
    /\ LET oid == convert_to_oid(req'.data["_id"], nextOid)
       IN  ~oid.ok \/ oid.n # FromHex(req'.resource_id)

\* A PUT or a GET leaves every document at its place under its id.
PutKeepsIds ==
    (req'.method \in {"PUT", "GET"} /\ req'.route \in {"item", "list"}) =>
        \A c \in Collections :
            /\ Len(db'[c]) >= Len(db[c])
            /\ \A i \in 1..Len(db[c]) : db'[c][i]["_id"] = db[c][i]["_id"]

\* A DELETE removes at most one document and leaves the others as they are.
DeleteKeepsIds ==
    req'.method = "DELETE" =>
        \A c \in Collections :
            \/ db'[c] = db[c]
            \/ \E i \in 1..Len(db[c]) :
                   db'[c] = SubSeq(db[c], 1, i - 1) \o SubSeq(db[c], i + 1, Len(db[c]))

----------------------------------------------------------------------------
(* C4 *)

\* C4: every id the store has assigned round-trips through its string: for
\* every stored document, convert_to_oid of str(oid) and of the {"$oid": ...}
\* object in the answer of query_document_by_id both give oid back; a query
\* with the string returns that document and a delete with it removes that
\* document and no other; and the id string an insert returns is the one of
\* the document it stored.
C4_IdRoundTrip ==
    /\ \A c \in Collections : \A i \in 1..Len(db[c]) :
           LET n == db[c][i]["_id"].n
               s == StrVal(ObjectIdStr(n))
               found == query_document_by_id(St, c, s)
           IN  /\ convert_to_oid(s, nextOid) = [ok |-> TRUE, n |-> n]
               /\ found.status_code = 200
               /\ convert_to_oid(found.data["_id"], nextOid) = [ok |-> TRUE, n |-> n]
               /\ Pop(found.data) = Pop(db[c][i])
               /\ delete_document_by_id(St, c, s).st.db
                      = [db EXCEPT ![c] =
                            SubSeq(@, 1, i - 1) \o SubSeq(@, i + 1, Len(@))]
    /\ (IsPutWithoutId /\ resp.status_code = 200) =>
           LET coll == db[req.resource]
           IN  /\ Len(coll) > 0
               /\ resp.data.id = ObjectIdStr(coll[Len(coll)]["_id"].n)
               /\ Pop(coll[Len(coll)]) = req.data

\* C4 witness: an insert has returned an id string with a letter digit, and
\* the document is stored.
C4_Witness ==
    /\ IsPutWithoutId
    /\ resp.status_code = 200
    /\ \E i \in 1..Len(resp.data.id) : resp.data.id[i] \in {"a", "b", "c", "d", "e", "f"}
    /\ FromHex(resp.data.id) \in Ids(db[req.resource])

----------------------------------------------------------------------------
(* C5 *)

----------------------------------------------------------------------------
(* C6 *)

\* The store with every collection but c emptied.
Isolated(c) ==
    [db |-> [x \in Collections |-> IF x = c THEN db[x] ELSE <<>>],
     next |-> nextOid]

\* C6: every resource name of the configuration has its collection endpoint
\* and its item endpoint, each built with that resource name; a request to
\* an endpoint of r changes no collection but r and is answered as it would
\* be if the other collections were empty.
C6_EndpointsUseOwnCollection ==
    /\ DOMAIN routes = resources
    /\ \A r \in resources :
           /\ routes[r].item.resource_name = r
           /\ routes[r].list.resource_name = r
    /\ [][req'.route \in {"item", "list"} =>
             LET r == req'.resource
             IN  /\ \A c \in Collections \ {r} : db'[c] = db[c]
                 /\ resp' =
                        CASE req'.method = "PUT" ->
                                 upsert_document(Isolated(r), r, req'.data).resp
                          [] req'.method = "DELETE" ->
                                 delete_document_by_id(Isolated(r), r,
                                     StrVal(req'.resource_id)).resp
                          [] req'.method = "GET" /\ req'.route = "item" ->
                                 query_document_by_id(Isolated(r), r,
                                     StrVal(req'.resource_id))
                          [] req'.method = "GET" /\ req'.route = "list" ->
                                 query_collection(Isolated(r), r, req'.page,
                                     req'.query)]_vars

\* C6 witness: a request to the last registered resource has changed its
\* collection while another resource's collection holds documents.
C6_Witness ==
    /\ req.route \in {"item", "list"}
    /\ req.method = "PUT"
    /\ req.resource = resource_order[Len(resource_order)]
    /\ resp.status_code = 200
    /\ db[req.resource] # <<>>
    /\ db[resource_order[1]] # <<>>

----------------------------------------------------------------------------
(* C7 *)

\* C7: upsert_document with a document that has no _id adds exactly one
\* document to the collection, under an id no document of the collection
\* has, leaves every existing document as it is, answers 200 with that id,
\* and a query_document_by_id with the returned id then answers 200 with the
\* inserted fields.
C7_InsertWithoutId ==
    [][IsPutWithoutId' =>
          LET c == req'.resource
              found == query_document_by_id(StNext, c, StrVal(resp'.data.id))
          IN  /\ resp'.status_code = 200
              /\ resp'.data.success = TRUE
              /\ resp'.data.updatedExisting = FALSE
              /\ Len(db'[c]) = Len(db[c]) + 1
              /\ SubSeq(db'[c], 1, Len(db[c])) = db[c]
              /\ \A b \in Collections \ {c} : db'[b] = db[b]
              /\ ValidHex(resp'.data.id)
              /\ FromHex(resp'.data.id) \notin Ids(db[c])
              /\ db'[c][Len(db'[c])]["_id"] = OidVal(FromHex(resp'.data.id))
              /\ Cardinality(Ids(db'[c])) = Len(db'[c])
              /\ found.status_code = 200
              /\ Pop(found.data) = req'.data]_vars

\* C7 witness: an insert into a collection that already held a document.
C7_Witness ==
    /\ IsPutWithoutId
    /\ resp.status_code = 200
    /\ resp.data.updatedExisting = FALSE
    /\ Len(db[req.resource]) >= 2
    /\ db[req.resource][Len(db[req.resource])]["_id"] = OidVal(FromHex(resp.data.id))

----------------------------------------------------------------------------
(* C8 *)

\* C8: after upsert_document has succeeded on data whose _id names a stored
\* document, query_document_by_id on that id returns exactly the fields of
\* data under the same id, nothing of the old document is kept, and the
\* collection has as many documents as before.
C8_UpdateReplacesCompletely ==
    [][(IsPutWithId' /\ resp'.status_code = 200) =>
          LET c == req'.resource
              oid == convert_to_oid(req'.data["_id"], nextOid)
              found == query_document_by_id(StNext, c, req'.data["_id"])
          IN  /\ oid.ok
              /\ oid.n \in Ids(db[c])
              /\ found.status_code = 200
              /\ DOMAIN found.data = DOMAIN req'.data
              /\ Pop(found.data) = Pop(req'.data)
              /\ found.data["_id"] = DictVal("$oid" :> StrVal(ObjectIdStr(oid.n)))
              /\ Len(db'[c]) = Len(db[c])
              /\ Ids(db'[c]) = Ids(db[c])]_vars

\* C8 witness: an update has succeeded whose data lacks a field that the
\* stored document had, and the stored document no longer has it.
C8_Witness ==
    /\ IsPutWithId
    /\ resp.status_code = 200
    /\ resp.data.updatedExisting = TRUE
    /\ "name" \notin DOMAIN req.data
    /\ \E i \in 1..Len(db[req.resource]) :
           /\ ObjectIdStr(db[req.resource][i]["_id"].n) = resp.data.id
           /\ "name" \notin DOMAIN db[req.resource][i]

----------------------------------------------------------------------------
(* C9 *)

\* The request of the next state is a DELETE with the id of a document of
\* the resource's collection.
DeletesExisting ==
    /\ req'.method = "DELETE"
    /\ ValidHex(req'.resource_id)
    /\ FromHex(req'.resource_id) \in Ids(db[req'.resource])

\* C9: delete_document_by_id with the id of a stored document answers 200 and
\* removes that document and no other; and an id the store has handed out
\* that names no document of a collection never names one again, so that
\* every later query_document_by_id with a deleted id answers 404.
C9_DeleteIsPermanent ==
    [][/\ DeletesExisting =>
              LET c == req'.resource
                  n == FromHex(req'.resource_id)
              IN  /\ resp'.status_code = 200
                  /\ resp'.data.id = req'.resource_id
                  /\ Len(db'[c]) = Len(db[c]) - 1
                  /\ \A i \in 1..Len(db[c]) :
                         db[c][i]["_id"] # OidVal(n) =>
                             \E j \in 1..Len(db'[c]) : db'[c][j] = db[c][i]
                  /\ \A b \in Collections \ {c} : db'[b] = db[b]
                  /\ query_document_by_id(StNext, c, StrVal(req'.resource_id)).status_code
                         = 404
       /\ \A c \in Collections : \A n \in KnownOids :
              query_document_by_id(St, c, StrVal(ObjectIdStr(n))).status_code = 404
                  => query_document_by_id(StNext, c, StrVal(ObjectIdStr(n))).status_code
                         = 404]_vars

\* C9 witness: a delete has been answered 200, the id names no document any
\* more, and another document of the collection is still stored.
C9_Witness ==
    /\ req.method = "DELETE"
    /\ resp.status_code = 200
    /\ query_document_by_id(St, req.resource, StrVal(req.resource_id)).status_code = 404
    /\ db[req.resource] # <<>>

----------------------------------------------------------------------------
(* C10 *)

\* C10: when upsert_document is called with data carrying the id of a stored
\* document, as the store's id value or as the {"$oid": ...} object that
\* query_document_by_id returns, it answers 200, the id in the response is
\* the id string the insert of the document reported, and the collection
\* holds one document of that id.
C10_UpsertAgainSameId ==
    (IsPutWithId /\ req.data["_id"].t \in {"ObjectId", "dict"}
        /\ convert_to_oid(req.data["_id"], nextOid).ok
        /\ convert_to_oid(req.data["_id"], nextOid).n \in Ids(db[req.resource]))
    => LET n == convert_to_oid(req.data["_id"], nextOid).n
       IN  /\ resp.status_code = 200
           /\ resp.data.id = ObjectIdStr(n)
           /\ Cardinality(Matching(db[req.resource], n)) = 1

----------------------------------------------------------------------------
(* C11 *)

\* The positions of the documents of coll that match query.
MatchingPositions(coll, query) ==
    {i \in 1..Len(coll) : Matches(coll[i], query)}

\* How many matching documents coll holds up to and including position i.
Rank(coll, query, i) ==
    Cardinality({j \in MatchingPositions(coll, query) : j <= i})

\* The documents at positions [page_number * ITEMS_PER_PAGE,
\* page_number * ITEMS_PER_PAGE + ITEMS_PER_PAGE) of the matching documents
\* of coll, in store order, as the response carries them.
PageOfMatching(coll, query, page_number) ==
    LET first == page_number * ITEMS_PER_PAGE
        on_page == {i \in MatchingPositions(coll, query) :
                       /\ first < Rank(coll, query, i)
                       /\ Rank(coll, query, i) <= first + ITEMS_PER_PAGE}
    IN  [j \in 1..Cardinality(on_page) |->
            json_dumps(coll[CHOOSE i \in on_page : Rank(coll, query, i) = first + j])]

\* The places <<page, index>> of the pages 0, 1, 2, ... of a paged read of
\* collection c that carry document doc.
PlacesOf(c, query, doc) ==
    {pl \in (0..(Len(db[c]) \div ITEMS_PER_PAGE + 1)) \X (1..ITEMS_PER_PAGE) :
        LET page == query_collection(St, c, pl[1], query).data
        IN  pl[2] <= Len(page) /\ page[pl[2]] = json_dumps(doc)}

\* C11: query_collection(collection, page_number, query) answers 200 with the
\* documents at positions [page_number * ITEMS_PER_PAGE, page_number *
\* ITEMS_PER_PAGE + ITEMS_PER_PAGE) of the matching documents in store
\* order: at most ITEMS_PER_PAGE documents, none for a page past the end,
\* the store unchanged; and for the collection as it stands every matching
\* document is on exactly one place of the pages 0, 1, 2, ... and a
\* document that does not match is on none.
C11_PagesPartitionMatches ==
    [][(req'.method = "GET" /\ req'.route = "list") =>
          LET c == req'.resource
              p == req'.page
              q == req'.query
              matching == MatchingPositions(db[c], q)
          IN  /\ resp'.status_code = 200
              /\ resp'.data = PageOfMatching(db[c], q, p)
              /\ Len(resp'.data) <= ITEMS_PER_PAGE
              /\ p * ITEMS_PER_PAGE >= Cardinality(matching) => resp'.data = <<>>
              /\ db' = db
              /\ \A i \in 1..Len(db[c]) :
                     Cardinality(PlacesOf(c, q, db[c][i]))
                         = IF i \in matching THEN 1 ELSE 0]_vars

\* C11 witness: a filtered read of a later page has been answered with
\* documents, the collection holds more than a page of matching documents
\* and a document the filter leaves out among its first ITEMS_PER_PAGE.
C11_Witness ==
    /\ req.method = "GET"
    /\ req.route = "list"
    /\ req.page >= 1
    /\ req.query # <<>>
    /\ resp.status_code = 200
    /\ resp.data # <<>>
    /\ Cardinality(MatchingPositions(db[req.resource], req.query)) > ITEMS_PER_PAGE
    /\ \E i \in 1..ITEMS_PER_PAGE : ~Matches(db[req.resource][i], req.query)

----------------------------------------------------------------------------
(* C12 *)

\* An id string with its hex letters in upper case.
Upper(s) ==
    [i \in DOMAIN s |->
        CASE s[i] = "a" -> "A" [] s[i] = "b" -> "B" [] s[i] = "c" -> "C"
          [] s[i] = "d" -> "D" [] s[i] = "e" -> "E" [] s[i] = "f" -> "F"
          [] OTHER -> s[i]]

\* The status the claim gives id in collection c: 422 when the id does not
\* convert, 404 when no document of c has it, 200 otherwise.
Classification(c, id) ==
    LET object_id == convert_to_oid(id, nextOid)
    IN  IF ~object_id.ok THEN 422
        ELSE IF \E i \in 1..Len(db[c]) : db[c][i]["_id"] = OidVal(object_id.n)
             THEN 200
             ELSE 404

\* Both operations, run on the store as it stands, give id the status of
\* its class in collection c; a delete that answers 422 or 404 returns the
\* store as it was, one that answers 200 takes one document out of c only.
ClassifiedAlike(c, id) ==
    LET deleted == delete_document_by_id(St, c, id)
        status == Classification(c, id)
    IN  /\ query_document_by_id(St, c, id).status_code = status
        /\ deleted.resp.status_code = status
        /\ status \in {422, 404} => deleted.st = St
        /\ status = 200 =>
               /\ Len(deleted.st.db[c]) = Len(db[c]) - 1
               /\ \A b \in Collections \ {c} : deleted.st.db[b] = db[b]

\* C12: query_document_by_id and delete_document_by_id give every id the
\* same status: 422 when it does not convert to a store id, 404 when it
\* converts and no document of the collection has it, 200 otherwise.  A
\* delete answered 422 or 404 leaves every collection as it was, and a
\* query leaves the store as it was whatever it answers.  Checked on the id
\* of every item GET and DELETE, in either case of its hex letters, and on
\* the _id value of every PUT body.
C12_SameClassification ==
    [][/\ (req'.route = "item" /\ req'.method \in {"GET", "DELETE"}) =>
              /\ resp'.status_code
                     = Classification(req'.resource, StrVal(req'.resource_id))
              /\ req'.method = "GET" => (db' = db /\ nextOid' = nextOid)
              /\ resp'.status_code \in {422, 404} => db' = db
              /\ ClassifiedAlike(req'.resource, StrVal(req'.resource_id))
              /\ ClassifiedAlike(req'.resource, StrVal(Upper(req'.resource_id)))
       /\ IsPutWithId' => ClassifiedAlike(req'.resource, req'.data["_id"])]_vars

\* C12 witness: a delete by a well-formed id has been answered 404 in a
\* collection that holds documents, while another collection holds a
\* document of that id, and an id that does not convert is answered 422 by
\* both operations.
C12_Witness ==
    /\ req.method = "DELETE"
    /\ req.route = "item"
    /\ resp.status_code = 404
    /\ ValidHex(req.resource_id)
    /\ db[req.resource] # <<>>
    /\ \E b \in Collections \ {req.resource} :
           query_document_by_id(St, b, StrVal(req.resource_id)).status_code = 200
    /\ \E id \in BadBodyIds :
           /\ query_document_by_id(St, req.resource, id).status_code = 422
           /\ delete_document_by_id(St, req.resource, id).resp.status_code = 422

====
